---- MODULE Spec2Model ----
(***************************************************************************)
(* Model of the navigation menu's route visibility filter                  *)
(* (packages/apps/src/Menu/index.tsx) and of the staking account row's     *)
(* role derivation (app-staking Actions/Account).                          *)
(*                                                                         *)
(* JavaScript values are represented as follows:                           *)
(*   - an optional array (needsApi, validators, waitingIds, ...) is a      *)
(*     record [set |-> BOOLEAN, ...]; set = FALSE is `undefined`;          *)
(*   - the Map disabledLog is a function whose DOMAIN is the set of keys   *)
(*     that have been set;                                                 *)
(*   - a plain object used as a dictionary (the reduce accumulator of      *)
(*     extractGroups) is a sequence of entries in insertion order, which   *)
(*     is the order Object.values gives for keys that are not integers.    *)
(*   - a stake value (a BN, or the integer a JSON value denotes) is a      *)
(*     record [hi, lo] standing for hi * 2^30 + lo, exact at any size;     *)
(*     Number() rounds it to the nearest 64-bit float, ties to even.       *)
(***************************************************************************)
EXTENDS Integers, Sequences, FiniteSets, TLC

VARIABLES
  routing,        \* Menu: routeRef.current, the route table built once
  apiProps,       \* Menu: useApi(): [api, isApiConnected, isApiReady]
  hasAccounts,    \* Menu: useAccounts().hasAccounts
  hasSudo,        \* Menu: the hasSudo memo
  disabledLog,    \* module-level Map<string, string>
  console,        \* the console.warn calls made so far, in order
  visibleGroups,  \* Menu: the visibleGroups memo
  rendered,       \* Menu: whether the component has rendered at all
  route,          \* the route handed to a direct call of checkVisible
  result,         \* <<>> before the first direct call, then <<return value>>
  guarantors,     \* Account: useCall(api.query.staking.guarantors, [stashId])
  validators,     \* Account: useCall(api.query.session.validators)
  targets,        \* Account: the targets prop
  activeEra,      \* Account: the active era index, 0 while not loaded
  role,           \* Account: the role state
  roleDirty,      \* Account: the role effect is due (mount, or a dep changed)
  guaranteeTargets, \* Account: the guaranteeTargets state
  stakeValue,     \* Account: the stakeValue state, a BN
  targetsDirty,   \* Account: the effect that stores the targets is due
  stakeDirty,     \* Account: the effect that sums the stake is due
  lastTargets     \* history: the targets of the latest Guarantee delivered

menuVars == <<routing, apiProps, hasAccounts, hasSudo, disabledLog, console,
              visibleGroups, rendered>>
callVars == <<route, result>>
accountVars == <<guarantors, validators, targets, activeEra, role, roleDirty,
                 guaranteeTargets, stakeValue, targetsDirty, stakeDirty,
                 lastTargets>>

----------------------------------------------------------------------------
(* Bounds and the finite universes the inputs are drawn from.              *)

\* longest route table handed to extractGroups
MaxRoutes == 3

\* the two chain capabilities the storage route needs (part_000:498-499)
Caps == {"tx.market.placeStorageOrder", "query.market.files"}

\* every value the `api` object can take: the capabilities it exposes
Apis == SUBSET Caps

ApiPropsSet ==
  [api : Apis, isApiConnected : BOOLEAN, isApiReady : BOOLEAN]

\* needsApi left out of a route's display
NoNeedsApi == [set |-> FALSE, apis |-> <<>>]

\* needsApi: [...]
NeedsApi(apis) == [set |-> TRUE, apis |-> apis]

\* the needsApi values tried: undefined, [], one capability, both
NeedsApiSet ==
  { NoNeedsApi,
    NeedsApi(<<>>),
    NeedsApi(<<"query.market.files">>),
    NeedsApi(<<"tx.market.placeStorageOrder">>),
    NeedsApi(<<"tx.market.placeStorageOrder", "query.market.files">>) }

\* Route['display']
DisplaySet ==
  [isHidden : BOOLEAN, needsAccounts : BOOLEAN, needsApi : NeedsApiSet,
   needsSudo : BOOLEAN]

Display(h, a, n, s) ==
  [isHidden |-> h, needsAccounts |-> a, needsApi |-> n, needsSudo |-> s]

\* the value of `route` while no direct call of checkVisible is made
NoRoute ==
  [name |-> "", group |-> "",
   display |-> Display(FALSE, FALSE, NoNeedsApi, FALSE)]

\* groupRef.current: group key -> translated display name
groupNames ==
  [g \in {"accounts", "storage"} |->
     CASE g = "accounts" -> "Accounts"
       [] g = "storage"  -> "Storage market"]

\* The storage route is the one create() returns; the others stand for the
\* remaining kinds of entries of the route table: one that needs sudo and a
\* capability, one that needs accounts and an (empty) api list, and one that
\* is hidden and otherwise unrestricted.
StorageRoute ==
  [name |-> "storage", group |-> "storage",
   display |-> Display(FALSE, FALSE,
     NeedsApi(<<"tx.market.placeStorageOrder", "query.market.files">>), FALSE)]

Catalog ==
  { StorageRoute,
    [name |-> "files", group |-> "storage",
     display |-> Display(FALSE, FALSE, NeedsApi(<<"query.market.files">>), TRUE)],
    [name |-> "accounts", group |-> "accounts",
     display |-> Display(FALSE, TRUE, NeedsApi(<<>>), FALSE)],
    [name |-> "hidden", group |-> "accounts",
     display |-> Display(TRUE, FALSE, NoNeedsApi, FALSE)] }

RECURSIVE DistinctSeqs(_, _)
\* the sequences of at most n distinct elements of S
DistinctSeqs(S, n) ==
  IF n = 0 THEN { <<>> }
  ELSE LET shorter == DistinctSeqs(S, n - 1)
           longest == { t \in shorter : Len(t) = n - 1 }
       IN shorter \cup
          UNION { { Append(t, x) : x \in S \ { t[i] : i \in 1..Len(t) } } :
                  t \in longest }

\* the route tables tried: any order of up to MaxRoutes catalog entries
RoutingSet == DistinctSeqs(Catalog, MaxRoutes)

----------------------------------------------------------------------------
(* The diagnostic log.                                                     *)

\* disabledLog = new Map<string, string>()
EmptyLog == [r \in {} |-> ""]

\* the process-wide effects a call can have: the Map and the console
Io(log, out) == [disabledLog |-> log, console |-> out]

\* `!disabledLog.get(route)`: true for a missing key and for the empty string
NotLogged(log, r) == r \notin DOMAIN log \/ log[r] = ""

\* disabledLog.set(route, message)
MapSet(log, r, message) ==
  [k \in DOMAIN log \cup {r} |-> IF k = r THEN message ELSE log[k]]

\* a variant that remembers the message and warns again when it changes
logDisabledPerMessage(io, r, message) ==
  IF r \notin DOMAIN io.disabledLog \/ io.disabledLog[r] # message
  THEN Io(MapSet(io.disabledLog, r, message),
          Append(io.console, [route |-> r, message |-> message]))
  ELSE io

logDisabled(io, r, message) ==
  IF NotLogged(io.disabledLog, r)
  THEN Io(MapSet(io.disabledLog, r, message),
          Append(io.console, [route |-> r, message |-> message]))
  ELSE io

----------------------------------------------------------------------------
(* checkVisible                                                            *)

\* the entries of needsApi the api does not expose, in needsApi's order
findMissingApis(api, needsApi) ==
  IF ~needsApi.set THEN <<>>
  ELSE SelectSeq(needsApi.apis, LAMBDA endpoint : endpoint \notin api)

RECURSIVE ArrayToString(_)
\* Array.prototype.toString: the elements joined by commas
ArrayToString(a) ==
  IF a = <<>> THEN ""
  ELSE IF Len(a) = 1 THEN a[1]
  ELSE a[1] \o "," \o ArrayToString(Tail(a))

Returns(visible, io) == [visible |-> visible, io |-> io]

\* variant: the api test comes before the accounts test
checkVisibleApiFirst(name, props, accounts, sudo, display, io) ==
  IF display.isHidden THEN Returns(FALSE, io)
  ELSE IF ~display.needsApi.set THEN Returns(TRUE, io)
  ELSE IF display.needsAccounts /\ ~accounts THEN Returns(FALSE, io)
  ELSE IF ~props.isApiReady \/ ~props.isApiConnected THEN Returns(FALSE, io)
  ELSE IF display.needsSudo /\ ~sudo
    THEN Returns(FALSE, logDisabled(io, name, "Sudo key not available"))
  ELSE LET notFound == findMissingApis(props.api, display.needsApi)
       IN Returns(Len(notFound) = 0,
            IF Len(notFound) # 0
            THEN logDisabled(io, name,
                   "API not available: " \o ArrayToString(notFound))
            ELSE io)

\* variant: the isHidden test is only reached by routes that need the api
checkVisibleHiddenLate(name, props, accounts, sudo, display, io) ==
  IF display.needsAccounts /\ ~accounts THEN Returns(FALSE, io)
  ELSE IF ~display.needsApi.set THEN Returns(TRUE, io)
  ELSE IF display.isHidden THEN Returns(FALSE, io)
  ELSE IF ~props.isApiReady \/ ~props.isApiConnected THEN Returns(FALSE, io)
  ELSE IF display.needsSudo /\ ~sudo
    THEN Returns(FALSE, logDisabled(io, name, "Sudo key not available"))
  ELSE LET notFound == findMissingApis(props.api, display.needsApi)
       IN Returns(Len(notFound) = 0,
            IF Len(notFound) # 0
            THEN logDisabled(io, name,
                   "API not available: " \o ArrayToString(notFound))
            ELSE io)

\* variant: the connection test comes before the needsApi test
checkVisibleConnectionFirst(name, props, accounts, sudo, display, io) ==
  IF display.isHidden THEN Returns(FALSE, io)
  ELSE IF display.needsAccounts /\ ~accounts THEN Returns(FALSE, io)
  ELSE IF ~props.isApiReady \/ ~props.isApiConnected THEN Returns(FALSE, io)
  ELSE IF ~display.needsApi.set THEN Returns(TRUE, io)
  ELSE IF display.needsSudo /\ ~sudo
    THEN Returns(FALSE, logDisabled(io, name, "Sudo key not available"))
  ELSE LET notFound == findMissingApis(props.api, display.needsApi)
       IN Returns(Len(notFound) = 0,
            IF Len(notFound) # 0
            THEN logDisabled(io, name,
                   "API not available: " \o ArrayToString(notFound))
            ELSE io)

\* variant: only isApiConnected is tested, not isApiReady
checkVisibleNoReady(name, props, accounts, sudo, display, io) ==
  IF display.isHidden THEN Returns(FALSE, io)
  ELSE IF display.needsAccounts /\ ~accounts THEN Returns(FALSE, io)
  ELSE IF ~display.needsApi.set THEN Returns(TRUE, io)
  ELSE IF ~props.isApiConnected THEN Returns(FALSE, io)
  ELSE IF display.needsSudo /\ ~sudo
    THEN Returns(FALSE, logDisabled(io, name, "Sudo key not available"))
  ELSE LET notFound == findMissingApis(props.api, display.needsApi)
       IN Returns(Len(notFound) = 0,
            IF Len(notFound) # 0
            THEN logDisabled(io, name,
                   "API not available: " \o ArrayToString(notFound))
            ELSE io)

\* variant: a route once logged as disabled stays disabled
checkVisibleCached(name, props, accounts, sudo, display, io) ==
  IF display.isHidden THEN Returns(FALSE, io)
  ELSE IF display.needsAccounts /\ ~accounts THEN Returns(FALSE, io)
  ELSE IF ~display.needsApi.set THEN Returns(TRUE, io)
  ELSE IF ~props.isApiReady \/ ~props.isApiConnected THEN Returns(FALSE, io)
  ELSE IF ~NotLogged(io.disabledLog, name) THEN Returns(FALSE, io)
  ELSE IF display.needsSudo /\ ~sudo
    THEN Returns(FALSE, logDisabled(io, name, "Sudo key not available"))
  ELSE LET notFound == findMissingApis(props.api, display.needsApi)
       IN Returns(Len(notFound) = 0,
            IF Len(notFound) # 0
            THEN logDisabled(io, name,
                   "API not available: " \o ArrayToString(notFound))
            ELSE io)

checkVisible(name, props, accounts, sudo, display, io) ==
  IF display.isHidden THEN Returns(FALSE, io)
  ELSE IF display.needsAccounts /\ ~accounts THEN Returns(FALSE, io)
  ELSE IF ~display.needsApi.set THEN Returns(TRUE, io)
  ELSE IF ~props.isApiReady \/ ~props.isApiConnected THEN Returns(FALSE, io)
  ELSE IF display.needsSudo /\ ~sudo
    THEN Returns(FALSE, logDisabled(io, name, "Sudo key not available"))
  ELSE LET notFound == findMissingApis(props.api, display.needsApi)
       IN Returns(Len(notFound) = 0,
            IF Len(notFound) # 0
            THEN logDisabled(io, name,
                   "API not available: " \o ArrayToString(notFound))
            ELSE io)

----------------------------------------------------------------------------
(* extractGroups                                                           *)

\* position of the entry of `all` stored under key, 0 when there is none
KeyIndex(all, key) ==
  IF \E i \in 1..Len(all) : all[i].key = key
  THEN CHOOSE i \in 1..Len(all) : all[i].key = key
  ELSE 0

\* variant of the reducer: a group seen for the first time is put in front
reduceRouteNewestFirst(names, all, r) ==
  LET i == KeyIndex(all, r.group)
  IN IF i = 0
     THEN <<[key |-> r.group, name |-> names[r.group], routes |-> <<r>>]>>
          \o all
     ELSE [all EXCEPT ![i].routes = Append(@, r)]

\* the reducer of extractGroups: one route added to the accumulator
reduceRoute(names, all, r) ==
  LET i == KeyIndex(all, r.group)
  IN IF i = 0
     THEN Append(all,
            [key |-> r.group, name |-> names[r.group], routes |-> <<r>>])
     ELSE [all EXCEPT ![i].routes = Append(@, r)]

RECURSIVE reduceRouting(_, _, _)
\* routing.reduce(reducer, all)
reduceRouting(rs, names, all) ==
  IF rs = <<>> THEN all
  ELSE reduceRouting(Tail(rs), names, reduceRoute(names, all, Head(rs)))

RECURSIVE filterRoutes(_, _, _, _, _)
\* routes.filter(checkVisible): [routes |-> the routes kept, io |-> effects]
filterRoutes(routes, props, accounts, sudo, acc) ==
  IF routes = <<>> THEN acc
  ELSE LET r == Head(routes)
           c == checkVisible(r.name, props, accounts, sudo, r.display, acc.io)
       IN filterRoutes(Tail(routes), props, accounts, sudo,
            [routes |-> IF c.visible THEN Append(acc.routes, r) ELSE acc.routes,
             io |-> c.io])

RECURSIVE mapGroups(_, _, _, _, _)
\* Object.values(all).map(...): [groups |-> filtered groups, io |-> effects]
mapGroups(all, props, accounts, sudo, acc) ==
  IF all = <<>> THEN acc
  ELSE LET f == filterRoutes(Head(all).routes, props, accounts, sudo,
                  [routes |-> <<>>, io |-> acc.io])
       IN mapGroups(Tail(all), props, accounts, sudo,
            [groups |-> Append(acc.groups,
                          [name |-> Head(all).name, routes |-> f.routes]),
             io |-> f.io])

\* variant: the groups left empty by the filter are kept
extractGroupsKeepEmpty(rs, names, props, accounts, sudo, io) ==
  mapGroups(reduceRouting(rs, names, <<>>), props, accounts, sudo,
            [groups |-> <<>>, io |-> io])

extractGroups(rs, names, props, accounts, sudo, io) ==
  LET mapped == mapGroups(reduceRouting(rs, names, <<>>), props, accounts, sudo,
                  [groups |-> <<>>, io |-> io])
  IN [groups |-> SelectSeq(mapped.groups, LAMBDA g : Len(g.routes) # 0),
      io |-> mapped.io]

----------------------------------------------------------------------------
(* The staking Account row: inputs and role derivation.                    *)

\* longest validator list and waiting list
MaxIds == 2

\* longest guarantee target list
MaxTargets == 2

\* last era index tried
MaxEra == 2

\* the row's own stash (props.info.stashId)
stashId == "stash"

\* the addresses that occur in validator and waiting lists
Ids == {stashId, "v1"}

\* a value a hook has not delivered yet
Undefined == [set |-> FALSE, items |-> <<>>]

\* an array value
Array(items) == [set |-> TRUE, items |-> items]

\* useCall<ValidatorId[]>: undefined, or the session's validator list
ValidatorsSet == { Undefined } \cup { Array(l) : l \in DistinctSeqs(Ids, MaxIds) }

\* SortedTargets: undefined, or an object whose waitingIds may be missing
TargetsSet ==
  { [set |-> FALSE, waitingIds |-> Undefined] } \cup
  { [set |-> TRUE, waitingIds |-> w] :
      w \in { Undefined } \cup { Array(l) : l \in DistinctSeqs(Ids, MaxIds) } }

\* An integer of arbitrary size (a chain Balance, a BN) is written in base
\* 2^30 as [hi, lo], standing for hi * 2^30 + lo with 0 <= lo < 2^30.
Base == 2 ^ 30

Big(hi, lo) == [hi |-> hi, lo |-> lo]

\* BN_ZERO
BN_ZERO == Big(0, 0)

\* the first integer a 64-bit float cannot hold together with its
\* successor is 2^53 = 2^23 * 2^30
SafeHi == 2 ^ 23

\* the IndividualExposure entries tried, in the order the chain lists them:
\* stakes of 100 and 250, and a stake of 2^53 + 1
ChainTargets ==
  << [who |-> "v1", value |-> Big(0, 100)],
     [who |-> "v2", value |-> Big(0, 250)],
     [who |-> "v3", value |-> Big(SafeHi, 1)] >>

\* IndividualExposure entries of a Guarantee
Exposures == { ChainTargets[k] : k \in 1..Len(ChainTargets) }

\* where an entry stands in the chain's order
Rank(e) == CHOOSE k \in 1..Len(ChainTargets) : ChainTargets[k] = e

\* the target lists tried: at most MaxTargets entries, in the chain's order
TargetLists ==
  { l \in DistinctSeqs(Exposures, MaxTargets) :
      \A i, j \in 1..Len(l) : i < j => Rank(l[i]) < Rank(l[j]) }

\* useCall<Guarantee>: undefined, an empty Option, or a Guarantee
GuarantorsSet ==
  { [kind |-> "undefined", targets |-> <<>>],
    [kind |-> "none", targets |-> <<>>] } \cup
  { [kind |-> "some", targets |-> l] : l \in TargetLists }

\* guarantors && JSON.parse(JSON.stringify(guarantors)): undefined stays
\* undefined, an empty Option becomes null, a Guarantee becomes a plain
\* object whose stake values still denote the chain's integers (a number,
\* or a hex string where the integer needs more than 52 bits)
guarantorInfo ==
  CASE guarantors.kind = "undefined" -> [kind |-> "undefined", targets |-> <<>>]
    [] guarantors.kind = "none"      -> [kind |-> "null", targets |-> <<>>]
    [] guarantors.kind = "some"      ->
         [kind |-> "object", targets |-> guarantors.targets]

\* Array.prototype.indexOf: the 0-based position of x, or -1
IndexOf(items, x) ==
  IF \E i \in 1..Len(items) : items[i] = x
  THEN (CHOOSE i \in 1..Len(items) :
          items[i] = x /\ \A j \in 1..(i - 1) : items[j] # x) - 1
  ELSE -1

\* a?.indexOf(x): undefined when a is undefined
OptionalIndexOf(a, x) ==
  IF a.set THEN [defined |-> TRUE, n |-> IndexOf(a.items, x)]
  ELSE [defined |-> FALSE, n |-> 0]

\* v != -1, where undefined != -1 is true
NotMinusOne(v) == IF v.defined THEN v.n # -1 ELSE TRUE

\* the truthiness of `guarantorInfo && guarantorInfo.targets.length != 0`
isGuarantor ==
  guarantorInfo.kind = "object" /\ Len(guarantorInfo.targets) # 0

\* the truthiness of
\* `validators && (validators.map(e => e.toString())?.indexOf(stashId) != -1)`
isValidator ==
  validators.set /\ NotMinusOne(OptionalIndexOf(Array(validators.items), stashId))

\* the truthiness of
\* `targets && (targets.waitingIds?.indexOf(stashId) != -1)`
isCandidate ==
  targets.set /\ NotMinusOne(OptionalIndexOf(targets.waitingIds, stashId))

\* a.add(b) of bn.js: exact addition
BNAdd(a, b) ==
  Big(a.hi + b.hi + ((a.lo + b.lo) \div Base), (a.lo + b.lo) % Base)

RECURSIVE DoubleStep(_)
\* the distance between neighbouring 64-bit floats at hi * 2^30: 1 below
\* 2^53, 2 below 2^54, 4 below 2^55, ...
DoubleStep(hi) ==
  IF hi < SafeHi THEN 1 ELSE 2 * DoubleStep(hi \div 2)

\* Number(value): the 64-bit float nearest to the integer, ties to the one
\* with an even mantissa
Number(value) ==
  LET step == DoubleStep(value.hi)
      q    == value.lo \div step
      r    == value.lo % step
      up   == 2 * r > step \/ (2 * r = step /\ q % 2 = 1)
      lo   == (IF up THEN q + 1 ELSE q) * step
  IN Big(value.hi + (lo \div Base), lo % Base)

\* new BN(Number(value).toString()): below 1e21 toString prints every digit
\* of the float's integer value and BN reads them back
NewBN(value) == Number(value)

RECURSIVE reduceStake(_, _)
\* guaranteeTargets.reduce((total, { value }) => total.add(new BN(...)), total)
reduceStake(list, total) ==
  IF list = <<>> THEN total
  ELSE reduceStake(Tail(list), BNAdd(total, NewBN(Head(list).value)))

\* variant: the validator test comes before the candidate test
classifyRoleValidatorFirst(g, v, c) ==
  IF g THEN "Guarantor"
  ELSE IF v THEN "Validator"
  ELSE IF c THEN "Candidate"
  ELSE "Bonded"

\* the if chain of the role effect
classifyRole(g, v, c) ==
  IF g THEN "Guarantor"
  ELSE IF c THEN "Candidate"
  ELSE IF v THEN "Validator"
  ELSE "Bonded"

\* the Account variables while no Account row is mounted
AccountUnmounted ==
  /\ guarantors = [kind |-> "undefined", targets |-> <<>>]
  /\ validators = Undefined
  /\ targets = [set |-> FALSE, waitingIds |-> Undefined]
  /\ activeEra = 0
  /\ role = "Bonded"
  /\ roleDirty = FALSE
  /\ guaranteeTargets = <<>>
  /\ stakeValue = BN_ZERO
  /\ targetsDirty = FALSE
  /\ stakeDirty = FALSE
  /\ lastTargets = <<>>

\* the first render: no call has delivered, the targets prop is whatever
\* the parent passes, the states hold their useState values and every
\* effect is due
InitAccount ==
  /\ routing = <<>>
  /\ apiProps = [api |-> {}, isApiConnected |-> FALSE, isApiReady |-> FALSE]
  /\ hasAccounts = FALSE
  /\ hasSudo = FALSE
  /\ disabledLog = EmptyLog
  /\ console = <<>>
  /\ visibleGroups = <<>>
  /\ rendered = FALSE
  /\ route = NoRoute
  /\ result = <<>>
  /\ guarantors = [kind |-> "undefined", targets |-> <<>>]
  /\ validators = Undefined
  /\ targets \in TargetsSet
  /\ activeEra = 0
  /\ role = "Bonded"
  /\ roleDirty = TRUE
  /\ guaranteeTargets = <<>>
  /\ stakeValue = BN_ZERO
  /\ targetsDirty = TRUE
  /\ stakeDirty = TRUE
  /\ lastTargets = <<>>

\* the guarantors subscription delivers a value: `guarantors` is a new
\* object; guarantorInfo is a new object too unless it stays null
GuarantorsUpdate ==
  \E g \in GuarantorsSet \ { [kind |-> "undefined", targets |-> <<>>] } :
    /\ guarantors' = g
    /\ roleDirty' = (roleDirty \/ g.kind = "some" \/ g.kind # guarantors.kind)
    /\ targetsDirty' = TRUE
    /\ lastTargets' = IF g.kind = "some" THEN g.targets ELSE lastTargets
    /\ UNCHANGED <<validators, targets, activeEra, role>>
    /\ UNCHANGED <<guaranteeTargets, stakeValue, stakeDirty>>
    /\ UNCHANGED <<menuVars, callVars>>

\* the session validators subscription delivers a value
ValidatorsUpdate ==
  \E v \in ValidatorsSet \ { Undefined } :
    /\ validators' = v
    /\ roleDirty' = TRUE
    /\ targetsDirty' = TRUE
    /\ UNCHANGED <<guarantors, targets, activeEra, role>>
    /\ UNCHANGED <<guaranteeTargets, stakeValue, stakeDirty>>
    /\ UNCHANGED <<menuVars, callVars, lastTargets>>

\* variant: targets is missing from the role effect's deps
TargetsUpdateNoDep ==
  \E t \in TargetsSet :
    /\ targets' = t
    /\ UNCHANGED <<guarantors, validators, activeEra, role, roleDirty>>
    /\ UNCHANGED <<guaranteeTargets, stakeValue, targetsDirty, stakeDirty>>
    /\ UNCHANGED <<menuVars, callVars, lastTargets>>

\* the parent passes a new targets prop
TargetsUpdate ==
  \E t \in TargetsSet :
    /\ targets' = t
    /\ roleDirty' = TRUE
    /\ UNCHANGED <<guarantors, validators, activeEra, role>>
    /\ UNCHANGED <<guaranteeTargets, stakeValue, targetsDirty, stakeDirty>>
    /\ UNCHANGED <<menuVars, callVars, lastTargets>>

\* the active era subscription delivers the next era index
ActiveEraUpdate ==
  /\ activeEra < MaxEra
  /\ activeEra' = activeEra + 1
  /\ roleDirty' = TRUE
  /\ targetsDirty' = TRUE
  /\ stakeDirty' = TRUE
  /\ UNCHANGED <<guarantors, validators, targets, role>>
  /\ UNCHANGED <<guaranteeTargets, stakeValue>>
  /\ UNCHANGED <<menuVars, callVars, lastTargets>>

\* the effect with deps [guarantorInfo, validators, activeEra, targets]
RoleEffect ==
  /\ roleDirty
  /\ role' = classifyRole(isGuarantor, isValidator, isCandidate)
  /\ roleDirty' = FALSE
  /\ UNCHANGED <<guarantors, validators, targets, activeEra>>
  /\ UNCHANGED <<guaranteeTargets, stakeValue, targetsDirty, stakeDirty>>
  /\ UNCHANGED <<menuVars, callVars, lastTargets>>

\* the effect with deps [guarantors, validators, activeEra]: guarantorInfo
\* != null is false for undefined and for null; the array stored is a new
\* one, which the stake effect's deps see
TargetsEffect ==
  /\ targetsDirty
  /\ IF guarantorInfo.kind = "object"
     THEN /\ guaranteeTargets' = guarantorInfo.targets
          /\ stakeDirty' = TRUE
     ELSE UNCHANGED <<guaranteeTargets, stakeDirty>>
  /\ targetsDirty' = FALSE
  /\ UNCHANGED <<guarantors, validators, targets, activeEra, role, roleDirty>>
  /\ UNCHANGED stakeValue
  /\ UNCHANGED <<menuVars, callVars, lastTargets>>

\* the effect with deps [guaranteeTargets, activeEra]
StakeEffect ==
  /\ stakeDirty
  /\ stakeValue' = reduceStake(guaranteeTargets, BN_ZERO)
  /\ stakeDirty' = FALSE
  /\ UNCHANGED <<guarantors, validators, targets, activeEra, role, roleDirty>>
  /\ UNCHANGED <<guaranteeTargets, targetsDirty>>
  /\ UNCHANGED <<menuVars, callVars, lastTargets>>

NextAccount ==
  \/ GuarantorsUpdate
  \/ ValidatorsUpdate
  \/ TargetsUpdate
  \/ ActiveEraUpdate
  \/ RoleEffect
  \/ TargetsEffect
  \/ StakeEffect

----------------------------------------------------------------------------
(* The Menu component and direct calls of checkVisible.                    *)

InitMenu ==
  /\ routing \in RoutingSet
  /\ apiProps = [api |-> {}, isApiConnected |-> FALSE, isApiReady |-> FALSE]
  /\ hasAccounts = FALSE
  /\ hasSudo = FALSE
  /\ disabledLog = EmptyLog
  /\ console = <<>>
  /\ visibleGroups = <<>>
  /\ rendered = FALSE
  /\ route = NoRoute
  /\ result = <<>>
  /\ AccountUnmounted

\* a render of Menu: the hooks deliver their current values and the
\* visibleGroups memo is recomputed
Menu ==
  \E props \in ApiPropsSet, accounts \in BOOLEAN, sudo \in BOOLEAN :
    LET x == extractGroups(routing, groupNames, props, accounts, sudo,
                           Io(disabledLog, console))
    IN /\ apiProps' = props
       /\ hasAccounts' = accounts
       /\ hasSudo' = sudo
       /\ visibleGroups' = x.groups
       /\ disabledLog' = x.io.disabledLog
       /\ console' = x.io.console
       /\ rendered' = TRUE
       /\ UNCHANGED <<routing, route, result>>
       /\ UNCHANGED accountVars

NextMenu == Menu

vars == <<routing, apiProps, hasAccounts, hasSudo, disabledLog, console,
          visibleGroups, rendered, route, result, guarantors, validators,
          targets, activeEra, role, roleDirty, guaranteeTargets, stakeValue,
          targetsDirty, stakeDirty, lastTargets>>

SpecMenu == InitMenu /\ [][NextMenu]_vars

\* the routes handed to direct calls: every combination of display flags
RouteSet == { [name |-> "route", group |-> "storage", display |-> d] : d \in DisplaySet }

InitCall ==
  /\ routing = <<>>
  /\ apiProps = [api |-> {}, isApiConnected |-> FALSE, isApiReady |-> FALSE]
  /\ hasAccounts = FALSE
  /\ hasSudo = FALSE
  /\ disabledLog = EmptyLog
  /\ console = <<>>
  /\ visibleGroups = <<>>
  /\ rendered = FALSE
  /\ route \in RouteSet
  /\ result = <<>>
  /\ AccountUnmounted

\* one call checkVisible(name, apiProps, hasAccounts, hasSudo, display)
CallCheckVisible ==
  \E props \in ApiPropsSet, accounts \in BOOLEAN, sudo \in BOOLEAN :
    LET c == checkVisible(route.name, props, accounts, sudo, route.display,
                          Io(disabledLog, console))
    IN /\ apiProps' = props
       /\ hasAccounts' = accounts
       /\ hasSudo' = sudo
       /\ result' = <<c.visible>>
       /\ disabledLog' = c.io.disabledLog
       /\ console' = c.io.console
       /\ UNCHANGED <<routing, visibleGroups, rendered, route>>
       /\ UNCHANGED accountVars

NextCall == CallCheckVisible

SpecCall == InitCall /\ [][NextCall]_vars

----------------------------------------------------------------------------
(* Properties of checkVisible, checked under SpecCall.                     *)

\* every capability the route requires is exposed by the api
AllCapabilitiesPresent ==
  \A i \in 1..Len(route.display.needsApi.apis) :
    route.display.needsApi.apis[i] \in apiProps.api

\* C1: for every combination of route flags, context and capabilities,
\* checkVisible returns the outcome of the first matching condition in the
\* order forceHidden -> hidden; requiresAccounts without accounts -> hidden;
\* not requiresApi -> visible; not ready or not connected -> hidden;
\* requiresSudo without sudo -> hidden; otherwise visible iff no required
\* capability is missing.
C1_PriorityOrder ==
  result # <<>> =>
    result[1] =
      IF route.display.isHidden THEN FALSE
      ELSE IF route.display.needsAccounts /\ ~hasAccounts THEN FALSE
      ELSE IF ~route.display.needsApi.set THEN TRUE
      ELSE IF ~apiProps.isApiReady \/ ~apiProps.isApiConnected THEN FALSE
      ELSE IF route.display.needsSudo /\ ~hasSudo THEN FALSE
      ELSE AllCapabilitiesPresent

\* a call that passed every earlier test and was decided by the capabilities
C1_Witness ==
  /\ result = <<TRUE>>
  /\ ~route.display.isHidden
  /\ route.display.needsAccounts
  /\ route.display.needsSudo
  /\ route.display.needsApi.set
  /\ Len(route.display.needsApi.apis) = 2

\* C3: for a route with requiresApi = false the result is the same for
\* every capability set and every connection state, the route flags,
\* hasAccounts and hasSudoPrivilege being equal.
C3_IndependentOfApi ==
  (result # <<>> /\ ~route.display.needsApi.set) =>
    \A props \in ApiPropsSet :
      checkVisible(route.name, props, hasAccounts, hasSudo, route.display,
                   Io(disabledLog, console)).visible = result[1]

\* a route without needsApi found visible while the api is disconnected
C3_Witness ==
  /\ result = <<TRUE>>
  /\ ~route.display.needsApi.set
  /\ route.display.needsSudo
  /\ ~apiProps.isApiConnected
  /\ ~apiProps.isApiReady
  /\ apiProps.api = {}

\* C4 as stated: a route with a non-empty requiredCapabilities list is
\* visible iff the api is connected and ready and every required capability
\* is present.
C4_Original ==
  (result # <<>> /\ route.display.needsApi.set
     /\ Len(route.display.needsApi.apis) # 0) =>
    (result[1] <=>
       (apiProps.isApiConnected /\ apiProps.isApiReady
          /\ AllCapabilitiesPresent))

\* C4 as amended: the same equivalence for the routes that are not force
\* hidden, do not lack required accounts and do not lack a required sudo key.
C4_Amended ==
  (result # <<>> /\ route.display.needsApi.set
     /\ Len(route.display.needsApi.apis) # 0
     /\ ~route.display.isHidden
     /\ ~(route.display.needsAccounts /\ ~hasAccounts)
     /\ ~(route.display.needsSudo /\ ~hasSudo)) =>
    (result[1] <=>
       (apiProps.isApiConnected /\ apiProps.isApiReady
          /\ AllCapabilitiesPresent))

\* the storage route's display found visible, and only because the api is
\* ready: accounts and sudo are absent and not asked for
C4_Witness ==
  /\ result = <<TRUE>>
  /\ route.display = StorageRoute.display
  /\ ~hasAccounts
  /\ ~hasSudo

----------------------------------------------------------------------------
(* Properties of extractGroups, checked under SpecMenu.                    *)

\* the positions <<i, j>> of the routes of the output
Emitted ==
  { p \in (1..Len(visibleGroups)) \X (1..MaxRoutes + 1) :
      p[2] <= Len(visibleGroups[p[1]].routes) }

EmittedRoute(p) == visibleGroups[p[1]].routes[p[2]]

\* checkVisible's verdict on r in the current context
Vis(r) ==
  checkVisible(r.name, apiProps, hasAccounts, hasSudo, r.display,
               Io(EmptyLog, <<>>)).visible

\* C2: a route whose forceHidden flag is true never appears in any group of
\* the output of extractGroups.
C2_HiddenNeverEmitted ==
  rendered => \A p \in Emitted : ~EmittedRoute(p).display.isHidden

\* the hidden route's own group is emitted, with its visible neighbour only
C2_Witness ==
  /\ rendered
  /\ \E k \in 1..Len(routing) : routing[k].display.isHidden
  /\ \E i \in 1..Len(visibleGroups) : visibleGroups[i].name = "Accounts"

\* C5: no emitted group is empty, every emitted route is visible, every
\* visible input route appears exactly once and in the group named by its
\* own group key, and a group is emitted iff one of its routes is visible.
C5_GroupsIffVisible ==
  rendered =>
    /\ \A i \in 1..Len(visibleGroups) : Len(visibleGroups[i].routes) # 0
    /\ \A p \in Emitted : Vis(EmittedRoute(p))
    /\ \A k \in 1..Len(routing) :
         Vis(routing[k]) =>
           /\ Cardinality({ p \in Emitted : EmittedRoute(p) = routing[k] }) = 1
           /\ \A p \in Emitted :
                EmittedRoute(p) = routing[k] =>
                  visibleGroups[p[1]].name = groupNames[routing[k].group]
    /\ \A g \in DOMAIN groupNames :
         (\E k \in 1..Len(routing) : routing[k].group = g /\ Vis(routing[k]))
           <=> (\E i \in 1..Len(visibleGroups) :
                  visibleGroups[i].name = groupNames[g])

\* one group is dropped because all its routes are filtered out, while
\* another group keeps one route and loses one
C5_Witness ==
  /\ rendered
  /\ Len(routing) = 3
  /\ Len(visibleGroups) = 1
  /\ Len(visibleGroups[1].routes) = 1
  /\ \E k \in 1..Len(routing) :
       /\ routing[k].group = "accounts"
       /\ ~routing[k].display.isHidden
  /\ visibleGroups[1].name = "Storage market"

\* where group key g first occurs in the route table
FirstSeen(g) ==
  CHOOSE k \in 1..Len(routing) :
    /\ routing[k].group = g
    /\ \A m \in 1..(k - 1) : routing[m].group # g

\* where route r stands in the route table
Position(r) == CHOOSE k \in 1..Len(routing) : routing[k] = r

\* C6: groups are listed in the order in which their keys first occur in
\* the route table, and the routes of a group in their order in the table.
C6_InputOrder ==
  rendered =>
    /\ \A p, q \in Emitted :
         p[1] < q[1] =>
           FirstSeen(EmittedRoute(p).group) < FirstSeen(EmittedRoute(q).group)
    /\ \A p, q \in Emitted :
         (p[1] = q[1] /\ p[2] < q[2]) =>
           Position(EmittedRoute(p)) < Position(EmittedRoute(q))

\* the table lists the storage group second but interleaved with the
\* accounts group, and both groups are emitted in that order
C6_Witness ==
  /\ rendered
  /\ Len(routing) = 3
  /\ routing[1].group = "accounts"
  /\ routing[2].group = "storage"
  /\ routing[3].group = "accounts"
  /\ Len(visibleGroups) = 2
  /\ visibleGroups[1].name = "Accounts"
  /\ visibleGroups[2].name = "Storage market"

\* the number of warnings printed for route name n
Warnings(n) == Cardinality({ i \in 1..Len(console) : console[i].route = n })

\* C7: over any sequence of evaluations the warning for a given route name
\* is printed at most once, whichever check fails.
C7_WarnOnce ==
  \A i \in 1..Len(console) : Warnings(console[i].route) <= 1

\* the sudo check failed and was logged earlier; now the sudo key is there
\* and the capability check of the same route fails
C7_Witness ==
  /\ rendered
  /\ \E i \in 1..Len(console) :
       /\ console[i].route = "files"
       /\ console[i].message = "Sudo key not available"
  /\ \E k \in 1..Len(routing) : routing[k].name = "files"
  /\ hasSudo
  /\ apiProps.isApiConnected
  /\ apiProps.isApiReady
  /\ "query.market.files" \notin apiProps.api

\* the contents of disabledLog tried: any set of the table's route names
\* marked as disabled, besides the log as it is
LogsTried ==
  { [n \in S |-> "Sudo key not available"] :
      S \in SUBSET { routing[k].name : k \in 1..Len(routing) } }
  \cup { disabledLog }

\* C8: extractGroups returns the same groups and routes in the same order
\* for the same routes, names, context and capabilities whatever the
\* content of disabledLog.
C8_LogDoesNotDecide ==
  rendered =>
    \A log \in LogsTried :
      extractGroups(routing, groupNames, apiProps, hasAccounts, hasSudo,
                    Io(log, <<>>)).groups = visibleGroups

\* a route logged as disabled by an earlier render is emitted by this one
C8_Witness ==
  /\ rendered
  /\ \E p \in Emitted : EmittedRoute(p).name \in DOMAIN disabledLog

----------------------------------------------------------------------------
(* The Account row's specification and the role properties.                *)

SpecAccount == InitAccount /\ [][NextAccount]_vars

\* C9: the role is exactly one of the four labels, with the precedence
\* Guarantor if isGuarantor, else Candidate if isCandidate, else Validator
\* if isValidator, else Bonded; so (true,true,true) is Guarantor,
\* (false,true,true) Candidate, (false,true,false) Validator and
\* (false,false,false) Bonded.
C9_RolePrecedence ==
  /\ role \in {"Bonded", "Guarantor", "Candidate", "Validator"}
  /\ ~roleDirty =>
       /\ isGuarantor => role = "Guarantor"
       /\ (~isGuarantor /\ isCandidate) => role = "Candidate"
       /\ (~isGuarantor /\ ~isCandidate /\ isValidator) => role = "Validator"
       /\ (~isGuarantor /\ ~isCandidate /\ ~isValidator) => role = "Bonded"

\* the stash is validator and candidate at once, with all lists loaded, and
\* the effect has classified it as Candidate
C9_Witness ==
  /\ ~roleDirty
  /\ ~isGuarantor
  /\ validators.set /\ \E i \in 1..Len(validators.items) : validators.items[i] = stashId
  /\ targets.set /\ targets.waitingIds.set
  /\ \E i \in 1..Len(targets.waitingIds.items) : targets.waitingIds.items[i] = stashId
  /\ role = "Candidate"

\* C10: data that is absent or not yet loaded contributes false: missing
\* guarantor data never yields Guarantor, a missing validator set never
\* yields Validator, missing candidate-pool data (a missing targets object
\* or one whose waiting list is not yet present) never yields Candidate, and
\* with nothing loaded the role is Bonded.
C10_MissingDataIsFalse ==
  ~roleDirty =>
    /\ guarantors.kind # "some" => role # "Guarantor"
    /\ ~validators.set => role # "Validator"
    /\ (~targets.set \/ ~targets.waitingIds.set) => role # "Candidate"
    /\ (guarantors.kind # "some" /\ ~validators.set
          /\ (~targets.set \/ ~targets.waitingIds.set)) => role = "Bonded"

----------------------------------------------------------------------------
(* Renders are handled one at a time: the effects of a render have all     *)
(* run, and so have those of the re-renders they cause, before the next    *)
(* value delivered is rendered.                                            *)

\* no effect is due
EffectsDone == ~roleDirty /\ ~targetsDirty /\ ~stakeDirty

\* a value is delivered once the last render is dealt with
DeliverGuarantors == EffectsDone /\ GuarantorsUpdate

DeliverValidators == EffectsDone /\ ValidatorsUpdate

DeliverTargets == EffectsDone /\ TargetsUpdate

DeliverActiveEra == EffectsDone /\ ActiveEraUpdate

NextCommit ==
  \/ DeliverGuarantors
  \/ DeliverValidators
  \/ DeliverTargets
  \/ DeliverActiveEra
  \/ RoleEffect
  \/ TargetsEffect
  \/ StakeEffect

SpecCommit == InitAccount /\ [][NextCommit]_vars

RECURSIVE SumOfValues(_)
\* the sum of the stake values of a target list, as an integer
SumOfValues(list) ==
  IF list = <<>> THEN Big(0, 0)
  ELSE LET rest == SumOfValues(Tail(list))
           lo   == Head(list).value.lo + rest.lo
       IN Big(Head(list).value.hi + rest.hi + (lo \div Base), lo % Base)

\* C11: the effective guaranteed stake equals the exact integer sum of the
\* per-target stake values of the target list (100 and 250 give 350), also
\* when a value exceeds 2^53.
C11_ExactStake ==
  ~stakeDirty => stakeValue = SumOfValues(guaranteeTargets)

\* C12: once the pending role effect has run, the stored role is the
\* classification of the current guarantor data, validator set and
\* candidate pool only, whatever values came before.
C12_RoleOfCurrentInputs ==
  ~roleDirty =>
    role = classifyRole(isGuarantor, isValidator, isCandidate)

\* the row was a guarantor (its targets are still stored), the guarantor
\* data has since become null, and the role is Bonded again
C12_Witness ==
  /\ ~roleDirty
  /\ guaranteeTargets # <<>>
  /\ guarantors.kind = "none"
  /\ role = "Bonded"

\* `role !== 'Bonded' && role != 'Guarantor'`: the Validate section is shown
showValidateSection == role # "Bonded" /\ role # "Guarantor"

\* variant: the Candidate test is missing
showGuaranteeSectionNoCandidate == role # "Validator"

\* `role !== 'Validator' && role != 'Candidate'`: the Guarantee section is
\* shown
showGuaranteeSection == role # "Validator" /\ role # "Candidate"

\* C13: the validator-management section is shown iff the role is Candidate
\* or Validator, the guarantee-management section iff it is Bonded or
\* Guarantor, and exactly one of the two is shown.
C13_ExactlyOneSection ==
  /\ showValidateSection <=> role \in {"Candidate", "Validator"}
  /\ showGuaranteeSection <=> role \in {"Bonded", "Guarantor"}
  /\ showValidateSection # showGuaranteeSection

\* the effect has made the row a Candidate: only the Validate section shows
C13_Witness ==
  /\ ~roleDirty
  /\ role = "Candidate"
  /\ showValidateSection
  /\ ~showGuaranteeSection

\* C14: once the pending effects have run, the stored stake is the sum of
\* the values of the stored target list, and that list is the target list
\* of the most recent non-null guarantor data (empty, with zero stake, if
\* none has arrived); a null update therefore leaves both unchanged.
C14_StoredTargetsAndStake ==
  EffectsDone =>
    /\ guaranteeTargets = lastTargets
    /\ stakeValue = SumOfValues(guaranteeTargets)

\* the part of C14 about the stored list alone
StoredTargetsAreLatest ==
  EffectsDone => guaranteeTargets = lastTargets

\* the stake as the code computes it
StakeIsRoundedSum ==
  ~stakeDirty => stakeValue = reduceStake(guaranteeTargets, BN_ZERO)

\* the stake is the exact sum when every stored value is below 2^53
ExactBelowSafe ==
  (EffectsDone /\ \A i \in 1..Len(guaranteeTargets) :
                    guaranteeTargets[i].value.hi < SafeHi) =>
    stakeValue = SumOfValues(guaranteeTargets)

====
